---------------------------- MODULE Spec2Model ----------------------------
(***************************************************************************)
(* Pagination and filtering helpers of linodego: ListOptions,              *)
(* applyListOptionsToRequest, Client.listHelper, flattenQueryStruct and    *)
(* queryFieldToString.                                                     *)
(*                                                                         *)
(* Three specifications share the module:                                  *)
(*   Spec         a listHelper call, its recursive calls, the server that  *)
(*                answers its requests, and a second call with the same    *)
(*                options;                                                 *)
(*   SpecLive     one listHelper call under weak fairness of its steps;    *)
(*   SpecFlatten  flattenQueryStruct applied to bounded input values.      *)
(***************************************************************************)
EXTENDS Integers, Sequences, FiniteSets, TLC

(***************************************************************************)
(* Bounds of the model.                                                    *)
(***************************************************************************)
\* largest totalPages a response reports
MaxPages == 3
\* largest page number a caller puts into ListOptions
MaxCallerPage == 2
\* number of items the server returns per page
ItemsPerPage == 2
\* largest number of fields of a QueryParams struct handed to flattenQueryStruct
MaxFields == 2

(***************************************************************************)
(* Go values.                                                              *)
(***************************************************************************)
\* the nil error, and an error carrying the message msg
NoError == [isErr |-> FALSE, msg |-> ""]

Err(msg) == [isErr |-> TRUE, msg |-> msg]

\* an empty map[string]string
EmptyMap == [k \in {} |-> ""]

\* m[k] = v of a Go map: a later assignment to the same key overwrites
MapSet(m, k, v) == [x \in (DOMAIN m) \cup {k} |-> IF x = k THEN v ELSE m[x]]

Digits == <<"0", "1", "2", "3", "4", "5", "6", "7", "8", "9">>

RECURSIVE FormatInt(_)
\* strconv.FormatInt(n, 10) and strconv.Itoa(n)
FormatInt(n) ==
    IF n < 0 THEN "-" \o FormatInt(-n)
    ELSE IF n < 10 THEN Digits[n + 1]
    ELSE FormatInt(n \div 10) \o Digits[(n % 10) + 1]

\* strconv.FormatBool
FormatBool(b) == IF b THEN "true" ELSE "false"

(***************************************************************************)
(* Values handed to flattenQueryStruct.                                    *)
(*                                                                         *)
(* A struct field is [tagged, tag, kind, ptr, val]: whether it carries a   *)
(* `query` tag, the tag's value, the kind of the field's (pointee) type,   *)
(* ptr = "no" for a plain field, "nil" for a nil pointer field, "set" for  *)
(* a non-nil pointer field, and the (pointee) value.  A float64 is         *)
(* modelled by its integer part.                                           *)
(***************************************************************************)
IntKinds == {"int", "int32", "int64"}

Kinds == {"string", "bool", "int", "int64", "int16", "float64"}

Tags == {"label", "count"}

ZeroOf(kind) ==
    CASE kind = "string" -> ""
      [] kind = "bool" -> FALSE
      [] OTHER -> 0

ValuesOf(kind) ==
    CASE kind = "string" -> {"", "x"}
      [] kind = "bool" -> {FALSE, TRUE}
      [] OTHER -> {0, 25}

TaggedFields ==
    UNION {
        [tagged : {TRUE}, tag : Tags, kind : {k}, ptr : {"no", "set"}, val : ValuesOf(k)]
        \cup [tagged : {TRUE}, tag : Tags, kind : {k}, ptr : {"nil"}, val : {ZeroOf(k)}]
        : k \in Kinds }

UntaggedFields ==
    [tagged : {FALSE}, tag : {""}, kind : {"string"}, ptr : {"no"}, val : ValuesOf("string")]

Fields == TaggedFields \cup UntaggedFields

\* query tags of a struct type are pairwise distinct
DistinctTags(fs) ==
    \A i, j \in 1..Len(fs) :
        (i # j /\ fs[i].tagged /\ fs[j].tagged) => fs[i].tag # fs[j].tag

Structs(n) ==
    {fs \in UNION {[1..m -> Fields] : m \in 0..n} : DistinctTags(fs)}

\* A value of type any: shape "nil" is the nil interface, "nilptr" a typed nil
\* pointer, "ptr" a non-nil pointer to a value of the kind, "val" the value itself.
NilValue == [shape |-> "nil", kind |-> "struct", fields |-> <<>>]

NilPointer == [shape |-> "nilptr", kind |-> "struct", fields |-> <<>>]

NonStructs == [shape : {"val", "ptr"}, kind : {"int"}, fields : {<<>>}]

StructValues(n) == [shape : {"val", "ptr"}, kind : {"struct"}, fields : Structs(n)]

\* a non-nil pointer to a pointer: one dereference leaves a pointer
PointerToPointer == [shape |-> "ptr", kind |-> "ptr", fields |-> <<>>]

(***************************************************************************)
(* queryFieldToString and flattenQueryStruct.                              *)
(***************************************************************************)
\* mutant of IsZero: only a nil pointer counts as zero
IsZeroNilOnly(f) == f.ptr = "nil"

\* reflect.Value.IsZero of a struct field: a pointer field is zero iff it is nil
IsZero(f) == IF f.ptr = "no" THEN f.val = ZeroOf(f.kind) ELSE f.ptr = "nil"

\* mutant of queryFieldToString: a bool is formatted as a number
queryFieldToStringBoolAsInt(f) ==
    CASE f.kind = "string" -> [err |-> NoError, str |-> f.val]
      [] f.kind \in IntKinds -> [err |-> NoError, str |-> FormatInt(f.val)]
      [] f.kind = "bool" -> [err |-> NoError, str |-> IF f.val THEN "1" ELSE "0"]
      [] OTHER -> [err |-> Err("unsupported query param type: " \o f.kind), str |-> ""]

\* mutant of queryFieldToString: every other kind is formatted as an integer
queryFieldToStringLenient(f) ==
    CASE f.kind = "string" -> [err |-> NoError, str |-> f.val]
      [] f.kind = "bool" -> [err |-> NoError, str |-> FormatBool(f.val)]
      [] OTHER -> [err |-> NoError, str |-> FormatInt(f.val)]

\* queryFieldToString, applied to the field's value after the dereference:
\* [err, str]
queryFieldToString(f) ==
    CASE f.kind = "string" -> [err |-> NoError, str |-> f.val]
      [] f.kind \in IntKinds -> [err |-> NoError, str |-> FormatInt(f.val)]
      [] f.kind = "bool" -> [err |-> NoError, str |-> FormatBool(f.val)]
      [] OTHER -> [err |-> Err("unsupported query param type: " \o f.kind), str |-> ""]

RECURSIVE flattenFields(_, _, _)
\* the loop over the struct's fields, from field i on, with the map built so far
flattenFields(fs, i, result) ==
    IF i > Len(fs) THEN [err |-> NoError, params |-> result]
    ELSE IF ~fs[i].tagged THEN flattenFields(fs, i + 1, result)
    ELSE IF IsZero(fs[i]) THEN flattenFields(fs, i + 1, result)
    ELSE LET s == queryFieldToString(fs[i])
         IN  IF s.err.isErr THEN [err |-> s.err, params |-> EmptyMap]
             ELSE flattenFields(fs, i + 1, MapSet(result, fs[i].tag, s.str))

\* reflect.Kind.String() of the value after at most one dereference
KindString(v) == IF v.shape = "nil" THEN "invalid" ELSE v.kind

\* mutant of flattenQueryStruct: the kind of the value is not checked
flattenQueryStructUnchecked(v) ==
    IF v.shape = "nilptr"
    THEN [err |-> Err("QueryParams is a nil pointer"), params |-> EmptyMap]
    ELSE flattenFields(v.fields, 1, EmptyMap)

\* flattenQueryStruct: [err, params]
flattenQueryStruct(v) ==
    IF v.shape = "nilptr"
    THEN [err |-> Err("QueryParams is a nil pointer"), params |-> EmptyMap]
    ELSE IF KindString(v) # "struct"
    THEN [err |-> Err("expected struct type for the QueryParams but got: " \o KindString(v)),
          params |-> EmptyMap]
    ELSE flattenFields(v.fields, 1, EmptyMap)

(***************************************************************************)
(* ListOptions and applyListOptionsToRequest.                              *)
(*                                                                         *)
(* A *ListOptions is [nil, hasPO, Page, Pages, Results, PageSize, Filter,  *)
(* QueryParams]: nil for the nil pointer, hasPO for a non-nil embedded     *)
(* *PageOptions.  A request is [query, header], two string maps.           *)
(***************************************************************************)
\* &ListOptions{PageOptions: &PageOptions{Page: 0}} of line 109
DefaultListOptions ==
    [nil |-> FALSE, hasPO |-> TRUE, Page |-> 0, Pages |-> 0, Results |-> 0,
     PageSize |-> 0, Filter |-> "", QueryParams |-> NilValue]

NilListOptions == [DefaultListOptions EXCEPT !.nil = TRUE, !.hasPO = FALSE]

\* NewListOptions(page, filter)
NewListOptions(page, filter) ==
    [DefaultListOptions EXCEPT !.Page = page, !.Filter = filter]

\* c.R(ctx): a request without query parameters and headers
NewRequest == [query |-> EmptyMap, header |-> EmptyMap]

SetQueryParam(req, k, v) == [req EXCEPT !.query = MapSet(req.query, k, v)]

RECURSIVE MergeParams(_, _, _)
MergeParams(req, params, keys) ==
    IF keys = {} THEN req
    ELSE LET k == CHOOSE x \in keys : TRUE
         IN  MergeParams(SetQueryParam(req, k, params[k]), params, keys \ {k})

\* req.SetQueryParams(params)
SetQueryParams(req, params) == MergeParams(req, params, DOMAIN params)

SetHeader(req, k, v) == [req EXCEPT !.header = MapSet(req.header, k, v)]

\* mutant of ApplyPage: the page is never sent
ApplyPageNever(o, req) == req

\* lines 73-75: the page query parameter
ApplyPage(o, req) ==
    IF o.hasPO /\ o.Page > 0 THEN SetQueryParam(req, "page", FormatInt(o.Page)) ELSE req

\* lines 77-79: the page_size query parameter
ApplyPageSize(o, req) ==
    IF o.PageSize > 0 THEN SetQueryParam(req, "page_size", FormatInt(o.PageSize)) ELSE req

\* mutant of ApplyFilter: the filter travels as a query parameter
ApplyFilterAsQuery(o, req) ==
    IF o.Filter # "" THEN SetQueryParam(req, "filter", o.Filter) ELSE req

\* lines 81-83: the filter header
ApplyFilter(o, req) ==
    IF o.Filter # "" THEN SetHeader(req, "X-Filter", o.Filter) ELSE req

\* mutant of applyListOptionsToRequest: a flatten error is dropped and the
\* request goes out without the extra parameters
applyListOptionsToRequestLenient(o, req) ==
    IF o.nil THEN [err |-> NoError, req |-> req]
    ELSE LET flat == IF o.QueryParams.shape # "nil"
                     THEN flattenQueryStruct(o.QueryParams)
                     ELSE [err |-> NoError, params |-> EmptyMap]
         IN  [err |-> NoError,
              req |-> ApplyFilter(o, ApplyPageSize(o, ApplyPage(o,
                          SetQueryParams(req, flat.params))))]

\* applyListOptionsToRequest(opts, req): [err, req]
applyListOptionsToRequest(o, req) ==
    IF o.nil THEN [err |-> NoError, req |-> req]
    ELSE LET flat == IF o.QueryParams.shape # "nil"
                     THEN flattenQueryStruct(o.QueryParams)
                     ELSE [err |-> NoError, params |-> EmptyMap]
         IN  IF flat.err.isErr
             THEN [err |-> Err("failed to apply list options: " \o flat.err.msg),
                   req |-> req]
             ELSE [err |-> NoError,
                   req |-> ApplyFilter(o, ApplyPageSize(o, ApplyPage(o,
                               SetQueryParams(req, flat.params))))]

(***************************************************************************)
(* The server behind PagedResponse.castResult.                             *)
(***************************************************************************)
\* the page a request asks for: the API serves page 1 when no page is given
RequestedPage(req) ==
    IF "page" \in DOMAIN req.query
    THEN CHOOSE p \in 1..(MaxPages + MaxCallerPage) : FormatInt(p) = req.query["page"]
    ELSE 1

\* the items of page p
PageItems(p) == [i \in 1..ItemsPerPage |-> <<p, i>>]

\* what the server delivers for page p when the collection has `pages` pages
ServerItems(p, pages) == IF p <= pages THEN PageItems(p) ELSE <<>>

\* totalPages and totalResults a response may report
PagesReported == -1..MaxPages

ResultsReported == {2 * ItemsPerPage, 3 * ItemsPerPage}

\* errors castResult may return
CastErrors == {Err("transport error"), Err("decode error")}

(***************************************************************************)
(* State.                                                                  *)
(***************************************************************************)
VARIABLES
    opts,       \* the ListOptions the call works on (line 98, 109)
    entry,      \* the caller's ListOptions as they were on entry
    stack,      \* the active listHelper invocations, innermost last
    ret,        \* [set, err]: the value the invocation that just returned gave
    reqs,       \* the requests issued so far, in order
    resps,      \* the answers received so far, in order
    inflight,   \* the number of requests issued and not yet answered
    acc,        \* the items castResult appended to the pager
    calls,      \* the number of listHelper invocations so far
    maxDepth,   \* the largest number of simultaneously active invocations
    input,      \* the value handed to flattenQueryStruct
    output,     \* what flattenQueryStruct returned
    flattened,  \* whether flattenQueryStruct has run
    second,     \* whether this is the caller's second call with the same options
    prev        \* the totalPages of the first response of the caller's first call

listVars == <<opts, entry, stack, ret, reqs, resps, inflight, acc, calls, maxDepth>>

callerVars == <<second, prev>>

flattenVars == <<input, output, flattened>>

vars == <<opts, entry, stack, ret, reqs, resps, inflight, acc, calls, maxDepth,
          input, output, flattened, second, prev>>

\* an invocation about to run line 99
NewFrame == [pc |-> "entry", pages |-> 0, results |-> 0, page |-> 0]

\* QueryParams values the caller of listHelper uses
GoodQuery ==
    [shape |-> "ptr", kind |-> "struct",
     fields |-> << [tagged |-> TRUE, tag |-> "label", kind |-> "string", ptr |-> "no", val |-> "x"],
                   [tagged |-> TRUE, tag |-> "count", kind |-> "int", ptr |-> "no", val |-> 25] >>]

FloatQuery ==
    [shape |-> "val", kind |-> "struct",
     fields |-> << [tagged |-> TRUE, tag |-> "count", kind |-> "float64", ptr |-> "no", val |-> 25] >>]

IntQuery == [shape |-> "val", kind |-> "int", fields |-> <<>>]

QuerySamples == {NilValue, GoodQuery, NilPointer, IntQuery, FloatQuery}

PageSizes == {0, 25}

\* <<Pages, Results>> of the caller's PageOptions on entry: fresh, or left
\* there by an earlier listing
EntryTotals == {<<0, 0>>, <<1, 1>>}

Filters == {"", "label:myserver"}

\* the ListOptions a caller may pass: nil, without PageOptions, or with a page
EntryOptions ==
    {NilListOptions}
    \cup { [DefaultListOptions EXCEPT !.hasPO = FALSE, !.PageSize = ps, !.Filter = f,
                                      !.QueryParams = q]
           : ps \in PageSizes, f \in Filters, q \in QuerySamples }
    \cup { [DefaultListOptions EXCEPT !.Page = p, !.Pages = t[1], !.Results = t[2],
                                      !.PageSize = ps, !.Filter = f, !.QueryParams = q]
           : p \in 0..MaxCallerPage, t \in EntryTotals, ps \in PageSizes, f \in Filters,
             q \in QuerySamples }

NoOutput == [err |-> NoError, params |-> EmptyMap]

InitFlattenIdle == input = NilValue /\ output = NoOutput /\ flattened = FALSE

\* the caller's first call: there is no previous one
InitCaller == second = FALSE /\ prev = 0

\* the caller has just invoked listHelper(ctx, pager, opts)
Init ==
    /\ opts \in EntryOptions
    /\ entry = opts
    /\ stack = <<NewFrame>>
    /\ ret = [set |-> FALSE, err |-> NoError]
    /\ reqs = <<>>
    /\ resps = <<>>
    /\ inflight = 0
    /\ acc = <<>>
    /\ calls = 1
    /\ maxDepth = 1
    /\ InitFlattenIdle
    /\ InitCaller

(***************************************************************************)
(* Client.listHelper.                                                      *)
(***************************************************************************)
Top == stack[Len(stack)]

SetTop(f) == [stack EXCEPT ![Len(stack)] = f]

Max(a, b) == IF a >= b THEN a ELSE b

\* the innermost invocation returns err to its caller
Return(err) ==
    /\ stack' = SubSeq(stack, 1, Len(stack) - 1)
    /\ ret' = [set |-> TRUE, err |-> err]

\* mutant of PropagateError: the error is wrapped
PropagateErrorWrapped(err) == Err("failed to list: " \o err.msg)

\* lines 105-107 and 117-119: the error is returned as it is
PropagateError(err) == err

\* mutant of Synthesize: nil options are replaced by options for page 1
SynthesizePageOne(o) ==
    IF o.nil THEN [nil |-> FALSE, hasPO |-> TRUE, Page |-> 1, Pages |-> 0, Results |-> 0,
                   PageSize |-> 0, Filter |-> "", QueryParams |-> NilValue]
    ELSE IF ~o.hasPO THEN [o EXCEPT !.hasPO = TRUE, !.Page = 0, !.Pages = 0, !.Results = 0]
    ELSE o

\* lines 108-113: nil options and nil PageOptions are replaced by page 0
Synthesize(o) ==
    IF o.nil THEN DefaultListOptions
    ELSE IF ~o.hasPO THEN [o EXCEPT !.hasPO = TRUE, !.Page = 0, !.Pages = 0, !.Results = 0]
    ELSE o

\* mutant of FetchesAll: every invocation walks the remaining pages
FetchesAllAlways(o) == TRUE

\* line 114: whether the invocation walks the remaining pages
FetchesAll(o) == o.Page = 0

\* mutant of LoopContinues: the last page is left out
LoopContinuesStrict(f) == f.page < f.pages

\* mutant of LoopContinues: page 2 is fetched whatever the first response says
LoopContinuesPageTwo(f) == f.page <= f.pages \/ f.page = 2

\* line 115: the loop condition
LoopContinues(f) == f.page <= f.pages

\* mutant of WriteTotals: the two totals are swapped
WriteTotalsSwapped(o, f) == [o EXCEPT !.Results = f.pages, !.Pages = f.results]

\* mutant of WriteTotals: the totals are not written back
WriteTotalsNothing(o, f) == o

\* lines 123-124: the totals of this invocation's own response are written back
WriteTotals(o, f) == [o EXCEPT !.Results = f.results, !.Pages = f.pages]

\* lines 99-102: applyListOptionsToRequest fails, nothing is sent
ApplyFails ==
    /\ stack # <<>>
    /\ Top.pc = "entry"
    /\ LET a == applyListOptionsToRequest(opts, NewRequest)
       IN  /\ a.err.isErr
           /\ Return(a.err)
    /\ UNCHANGED <<opts, entry, reqs, resps, inflight, acc, calls, maxDepth>>
    /\ UNCHANGED flattenVars
    /\ UNCHANGED callerVars

\* mutant of SendRequest: the options are defaulted before the request is sent
SendRequestDefaultsFirst ==
    /\ stack # <<>>
    /\ Top.pc = "entry"
    /\ LET a == applyListOptionsToRequest(opts, NewRequest)
       IN  /\ ~a.err.isErr
           /\ reqs' = Append(reqs, a.req)
    /\ opts' = Synthesize(opts)
    /\ inflight' = inflight + 1
    /\ stack' = SetTop([Top EXCEPT !.pc = "wait"])
    /\ UNCHANGED <<entry, ret, resps, acc, calls, maxDepth>>
    /\ UNCHANGED <<input, output, flattened>>
    /\ UNCHANGED <<second, prev>>

\* lines 99-104: the request is built and castResult sends it
SendRequest ==
    /\ stack # <<>>
    /\ Top.pc = "entry"
    /\ LET a == applyListOptionsToRequest(opts, NewRequest)
       IN  /\ ~a.err.isErr
           /\ reqs' = Append(reqs, a.req)
    /\ inflight' = inflight + 1
    /\ stack' = SetTop([Top EXCEPT !.pc = "wait"])
    /\ UNCHANGED <<opts, entry, ret, resps, acc, calls, maxDepth>>
    /\ UNCHANGED flattenVars
    /\ UNCHANGED callerVars

\* lines 104-107: castResult returns an error
CastResultFails ==
    /\ stack # <<>>
    /\ Top.pc = "wait"
    /\ \E e \in CastErrors :
          /\ resps' = Append(resps, [err |-> e, pages |-> 0, results |-> 0, items |-> <<>>])
          /\ Return(PropagateError(e))
    /\ inflight' = inflight - 1
    /\ UNCHANGED <<opts, entry, reqs, acc, calls, maxDepth>>
    /\ UNCHANGED flattenVars
    /\ UNCHANGED callerVars

\* mutant of CastResultReturns: the page walk starts at page 1 again
CastResultReturnsWalkFromOne ==
    /\ stack # <<>>
    /\ Top.pc = "wait"
    /\ \E pages \in PagesReported, results \in ResultsReported :
          /\ LET items == ServerItems(RequestedPage(reqs[Len(reqs)]), pages)
             IN  /\ resps' = Append(resps, [err |-> NoError, pages |-> pages,
                                            results |-> results, items |-> items])
                 /\ acc' = acc \o items
          /\ opts' = Synthesize(opts)
          /\ stack' = SetTop([pc |-> IF FetchesAll(opts') THEN "loop" ELSE "tail",
                              pages |-> pages, results |-> results, page |-> 1])
    /\ inflight' = inflight - 1
    /\ UNCHANGED <<entry, ret, reqs, calls, maxDepth>>
    /\ UNCHANGED <<input, output, flattened>>
    /\ UNCHANGED <<second, prev>>

\* lines 104-114: castResult appends the page to the pager and returns the
\* totals; the options are defaulted and the page walk is decided
CastResultReturns ==
    /\ stack # <<>>
    /\ Top.pc = "wait"
    /\ \E pages \in PagesReported, results \in ResultsReported :
          /\ LET items == ServerItems(RequestedPage(reqs[Len(reqs)]), pages)
             IN  /\ resps' = Append(resps, [err |-> NoError, pages |-> pages,
                                            results |-> results, items |-> items])
                 /\ acc' = acc \o items
          /\ opts' = Synthesize(opts)
          /\ stack' = SetTop([pc |-> IF FetchesAll(opts') THEN "loop" ELSE "tail",
                              pages |-> pages, results |-> results, page |-> 2])
    /\ inflight' = inflight - 1
    /\ UNCHANGED <<entry, ret, reqs, calls, maxDepth>>
    /\ UNCHANGED flattenVars
    /\ UNCHANGED callerVars

\* lines 115-117: the next page is put into the options and listHelper calls itself
LoopCall ==
    /\ stack # <<>>
    /\ Top.pc = "loop"
    /\ LoopContinues(Top)
    /\ opts' = [opts EXCEPT !.Page = Top.page]
    /\ stack' = Append(SetTop([Top EXCEPT !.pc = "called"]), NewFrame)
    /\ calls' = calls + 1
    /\ maxDepth' = Max(maxDepth, Len(stack'))
    /\ UNCHANGED <<entry, ret, reqs, resps, inflight, acc>>
    /\ UNCHANGED flattenVars
    /\ UNCHANGED callerVars

\* mutant of AfterCallFails: the pages accumulated so far are dropped
AfterCallFailsRollsBack ==
    /\ stack # <<>>
    /\ Top.pc = "called"
    /\ ret.set
    /\ ret.err.isErr
    /\ Return(ret.err)
    /\ acc' = <<>>
    /\ UNCHANGED <<opts, entry, reqs, resps, inflight, calls, maxDepth>>
    /\ UNCHANGED <<input, output, flattened>>
    /\ UNCHANGED <<second, prev>>

\* lines 117-119: the recursive call failed
AfterCallFails ==
    /\ stack # <<>>
    /\ Top.pc = "called"
    /\ ret.set
    /\ ret.err.isErr
    /\ Return(PropagateError(ret.err))
    /\ UNCHANGED <<opts, entry, reqs, resps, inflight, acc, calls, maxDepth>>
    /\ UNCHANGED flattenVars
    /\ UNCHANGED callerVars

\* mutant of AfterCallContinues: the page++ of the loop is left out
AfterCallContinuesSamePage ==
    /\ stack # <<>>
    /\ Top.pc = "called"
    /\ ret.set
    /\ ~ret.err.isErr
    /\ stack' = SetTop([Top EXCEPT !.pc = "loop"])
    /\ ret' = [set |-> FALSE, err |-> NoError]
    /\ UNCHANGED <<opts, entry, reqs, resps, inflight, acc, calls, maxDepth>>
    /\ UNCHANGED <<input, output, flattened>>
    /\ UNCHANGED <<second, prev>>

\* lines 115-117: the recursive call succeeded, page++
AfterCallContinues ==
    /\ stack # <<>>
    /\ Top.pc = "called"
    /\ ret.set
    /\ ~ret.err.isErr
    /\ stack' = SetTop([Top EXCEPT !.pc = "loop", !.page = Top.page + 1])
    /\ ret' = [set |-> FALSE, err |-> NoError]
    /\ UNCHANGED <<opts, entry, reqs, resps, inflight, acc, calls, maxDepth>>
    /\ UNCHANGED flattenVars
    /\ UNCHANGED callerVars

\* mutant of Finish: after the page walk the page is set back to 0
FinishRestoresSentinel ==
    /\ stack # <<>>
    /\ \/ Top.pc = "tail"
       \/ Top.pc = "loop" /\ ~LoopContinues(Top)
    /\ opts' = [WriteTotals(opts, Top) EXCEPT !.Page = IF Top.pc = "loop" THEN 0 ELSE @]
    /\ Return(NoError)
    /\ UNCHANGED <<entry, reqs, resps, inflight, acc, calls, maxDepth>>
    /\ UNCHANGED <<input, output, flattened>>
    /\ UNCHANGED <<second, prev>>

\* lines 115, 123-125: the loop is over or was not entered
Finish ==
    /\ stack # <<>>
    /\ \/ Top.pc = "tail"
       \/ Top.pc = "loop" /\ ~LoopContinues(Top)
    /\ opts' = WriteTotals(opts, Top)
    /\ Return(NoError)
    /\ UNCHANGED <<entry, reqs, resps, inflight, acc, calls, maxDepth>>
    /\ UNCHANGED flattenVars
    /\ UNCHANGED callerVars

\* after listing every page of a collection of several pages with success the
\* caller lists again, with a fresh pager and the same *ListOptions, as
\* listHelper left them
CallAgain ==
    /\ stack = <<>>
    /\ ret.set /\ ~ret.err.isErr
    /\ ~entry.nil
    /\ ~entry.hasPO \/ entry.Page = 0
    /\ resps[1].pages >= 2
    /\ ~second
    /\ second' = TRUE
    /\ prev' = resps[1].pages
    /\ entry' = opts
    /\ stack' = <<NewFrame>>
    /\ ret' = [set |-> FALSE, err |-> NoError]
    /\ reqs' = <<>>
    /\ resps' = <<>>
    /\ inflight' = 0
    /\ acc' = <<>>
    /\ calls' = 1
    /\ maxDepth' = 1
    /\ UNCHANGED opts
    /\ UNCHANGED flattenVars

\* the steps of one listHelper call
NextCall ==
    \/ ApplyFails
    \/ SendRequest
    \/ CastResultFails
    \/ CastResultReturns
    \/ LoopCall
    \/ AfterCallFails
    \/ AfterCallContinues
    \/ Finish

Next == CallAgain \/ NextCall

Spec == Init /\ [][Next]_vars

\* a call whose options carry no page size, no filter and no stale totals
InitLive ==
    /\ Init
    /\ opts.PageSize = 0 /\ opts.Filter = ""
    /\ opts.Pages = 0 /\ opts.Results = 0
    /\ opts.QueryParams \in {NilValue, FloatQuery}

\* One listHelper call in which every step of the sequential code is taken and
\* every page fetch returns.
SpecLive == InitLive /\ [][NextCall]_vars /\ WF_vars(NextCall)

(***************************************************************************)
(* flattenQueryStruct on its own.                                          *)
(***************************************************************************)
FlattenInputs ==
    {NilValue, NilPointer, PointerToPointer} \cup NonStructs \cup StructValues(MaxFields)

InitFlatten ==
    /\ input \in FlattenInputs
    /\ output = NoOutput
    /\ flattened = FALSE
    /\ opts = NilListOptions
    /\ entry = NilListOptions
    /\ stack = <<>>
    /\ ret = [set |-> FALSE, err |-> NoError]
    /\ reqs = <<>>
    /\ resps = <<>>
    /\ inflight = 0
    /\ acc = <<>>
    /\ calls = 0
    /\ maxDepth = 0
    /\ InitCaller

Flatten ==
    /\ ~flattened
    /\ output' = flattenQueryStruct(input)
    /\ flattened' = TRUE
    /\ UNCHANGED input
    /\ UNCHANGED listVars
    /\ UNCHANGED callerVars

NextFlatten == Flatten

SpecFlatten == InitFlatten /\ [][NextFlatten]_vars

(***************************************************************************)
(* What the caller sees.                                                   *)
(***************************************************************************)
\* the outermost listHelper call has returned
Done == stack = <<>> /\ ret.set

Succeeded == Done /\ ~ret.err.isErr

Failed == Done /\ ret.err.isErr

(***************************************************************************)
(* Vocabulary of the properties.                                           *)
(***************************************************************************)
\* the caller passed options with PageOptions and page 0
EntryPageZero == ~entry.nil /\ entry.hasPO /\ entry.Page = 0

\* the caller passed options with PageOptions and a page N > 0
EntrySinglePage == ~entry.nil /\ entry.hasPO /\ entry.Page > 0

\* the caller asked for every page: nil options, no PageOptions, or page 0
EntryFetchAll == entry.nil \/ ~entry.hasPO \/ entry.Page = 0

RECURSIVE ConcatPages(_)
\* the items of pages 1..n, page 1 first
ConcatPages(n) == IF n <= 0 THEN <<>> ELSE ConcatPages(n - 1) \o PageItems(n)

RECURSIVE ConcatDelivered(_)
\* the items the first n responses delivered, in the order of the responses
ConcatDelivered(n) == IF n <= 0 THEN <<>> ELSE ConcatDelivered(n - 1) \o resps[n].items

\* the k-th response delivered items of page k only
DeliveredByPage ==
    \A k \in 1..Len(resps) :
        \A i \in 1..Len(resps[k].items) : resps[k].items[i][1] = k

\* the k-th request asks for page k, and only the first one does so by
\* carrying no page parameter
AscendingPages ==
    \A k \in 1..Len(reqs) :
        IF k = 1 THEN "page" \notin DOMAIN reqs[k].query
        ELSE "page" \in DOMAIN reqs[k].query /\ reqs[k].query["page"] = FormatInt(k)

LastResponse == resps[Len(resps)]

\* C1 as stated: a successful call with page 0 issues exactly totalPages requests
\* (the totalPages the server reported) and accumulates pages 1..totalPages in order.
C1_AsStated ==
    (Succeeded /\ EntryPageZero) =>
        /\ Len(reqs) = resps[1].pages
        /\ acc = ConcatPages(resps[1].pages)

\* C1 amended: with page 0 at most one request is in flight at any time, and a
\* successful call has issued exactly max(1, totalPages) requests, totalPages being
\* the value of the first response, the k-th request asking for page k; the
\* accumulator is the concatenation, in ascending page order, of the items the
\* server delivered for pages 1..max(1, totalPages).
C1_FetchAllRequests ==
    EntryPageZero =>
        /\ inflight <= 1
        /\ AscendingPages
        /\ Succeeded =>
              /\ Len(reqs) = Max(1, resps[1].pages)
              /\ inflight = 0
              /\ acc = ConcatDelivered(Max(1, resps[1].pages))
              /\ DeliveredByPage

C1_Witness ==
    /\ Succeeded /\ EntryPageZero
    /\ resps[1].pages = MaxPages
    /\ Len(reqs) = MaxPages
    /\ acc = ConcatPages(MaxPages)

\* C2: options with PageOptions and page N > 0 that applyListOptionsToRequest
\* accepts lead to exactly one request, which carries page=N, and to no
\* recursive listHelper call, whatever totalPages the response reports.
C2_SinglePage ==
    EntrySinglePage =>
        /\ calls = 1
        /\ Len(reqs) <= 1
        /\ \A k \in 1..Len(reqs) :
              /\ "page" \in DOMAIN reqs[k].query
              /\ reqs[k].query["page"] = FormatInt(entry.Page)
        /\ (Done /\ ~applyListOptionsToRequest(entry, NewRequest).err.isErr)
              => Len(reqs) = 1

C2_Witness ==
    /\ Succeeded /\ EntrySinglePage
    /\ entry = NewListOptions(MaxCallerPage, "")
    /\ resps[1].pages = MaxPages
    /\ Len(reqs) = 1
    /\ reqs[1].query = [k \in {"page"} |-> FormatInt(MaxCallerPage)]

\* C3 as stated: after a successful fetch-all over several pages the options hold
\* the number of pages and the totalResults of the last page's response.
C3_AsStated ==
    (Succeeded /\ EntryFetchAll /\ ~entry.nil /\ Len(reqs) >= 2) =>
        /\ opts.Pages = Len(reqs)
        /\ opts.Results = LastResponse.results

\* C3 amended: after a successful fetch-all over several pages the options hold
\* the totalPages and the totalResults of the FIRST response (the one of the
\* request without page parameter); totalPages is the number of requests issued.
C3_FetchAllTotals ==
    (Succeeded /\ EntryFetchAll /\ ~entry.nil /\ Len(reqs) >= 2) =>
        /\ opts.Pages = resps[1].pages
        /\ opts.Pages = Len(reqs)
        /\ opts.Results = resps[1].results

C3_Witness ==
    /\ Succeeded /\ EntryFetchAll /\ ~entry.nil
    /\ Len(reqs) = MaxPages
    /\ LastResponse.results # resps[1].results
    /\ LastResponse.pages # resps[1].pages
    /\ opts.Results = resps[1].results

\* C4: after a successful call with PageOptions and page N > 0 the options hold
\* the totalPages and totalResults of that one response and the page is still N.
C4_SinglePageTotals ==
    (Succeeded /\ EntrySinglePage) =>
        /\ Len(resps) = 1
        /\ opts.Pages = resps[1].pages
        /\ opts.Results = resps[1].results
        /\ opts.Page = entry.Page
        /\ opts.hasPO

C4_Witness ==
    /\ Succeeded /\ EntrySinglePage
    /\ entry.Page = 1
    /\ entry.Pages = 1
    /\ opts.Pages = MaxPages
    /\ opts.Results = resps[1].results
    /\ opts.Results > 0

\* a page fetch has failed: the last answer received is an error
FetchFailed == Len(resps) >= 1 /\ LastResponse.err.isErr

\* C5: a failing page fetch, the first or a later one, ends the call: the failing
\* answer is the last one, no request is issued after it (none is retried), and
\* the caller gets exactly the error castResult returned.
C5_FailureAborts ==
    /\ \A k \in 1..(Len(resps) - 1) : ~resps[k].err.isErr
    /\ FetchFailed =>
          /\ Len(reqs) = Len(resps)
          /\ inflight = 0
          /\ ret.set /\ ret.err = LastResponse.err

C5_Witness ==
    /\ Failed /\ FetchFailed
    /\ Len(resps) = MaxPages
    /\ Len(reqs) = MaxPages
    /\ maxDepth > 1
    /\ ret.err = Err("decode error")

\* C6: when a fetch-all fails at page k >= 2, the accumulator still holds the
\* items delivered for pages 1..k-1, in page order, when the error is returned.
C6_PartialResultsKept ==
    (Failed /\ FetchFailed /\ EntryFetchAll /\ Len(reqs) >= 2) =>
        /\ acc = ConcatDelivered(Len(reqs) - 1)
        /\ DeliveredByPage
        /\ Len(acc) >= Len(resps[1].items)

C6_Witness ==
    /\ Failed /\ FetchFailed /\ EntryFetchAll
    /\ Len(reqs) = MaxPages
    /\ acc = ConcatPages(MaxPages - 1)
    /\ acc # <<>>

\* the value of the page parameter of a request, "" when it carries none
PageParam(req) == IF "page" \in DOMAIN req.query THEN req.query["page"] ELSE ""

\* the number of requests a fetch-all issues, as the answers alone determine it
RequestsExpected ==
    IF Len(resps) = 0 THEN 0
    ELSE IF FetchFailed THEN Len(resps)
    ELSE Max(1, resps[1].pages)

\* C7: nil options, options without PageOptions and options with page 0 behave
\* alike: whichever of the three the caller passed, the requests carry the same
\* page parameters (none, then 2, 3, ...), their number is determined by the
\* answers alone, and the same items are accumulated.
C7_FetchAllAlike ==
    EntryFetchAll =>
        /\ AscendingPages
        /\ DeliveredByPage
        /\ acc = ConcatDelivered(Len(resps))
        /\ Len(reqs) <= Max(1, RequestsExpected)
        /\ Done => Len(reqs) = RequestsExpected

C7_Witness ==
    /\ Succeeded /\ entry.nil
    /\ Len(reqs) = MaxPages
    /\ PageParam(reqs[1]) = ""
    /\ PageParam(reqs[MaxPages]) = FormatInt(MaxPages)
    /\ acc = ConcatPages(MaxPages)

\* C8: with a non-empty filter every request carries the X-Filter header with
\* exactly the filter as its value and no query parameter holds the filter;
\* with an empty filter (or nil options) no request carries the header.
C8_FilterHeader ==
    \A k \in 1..Len(reqs) :
        IF ~entry.nil /\ entry.Filter # ""
        THEN /\ "X-Filter" \in DOMAIN reqs[k].header
             /\ reqs[k].header["X-Filter"] = entry.Filter
             /\ \A q \in DOMAIN reqs[k].query :
                   reqs[k].query[q] # entry.Filter /\ q \notin {"filter", "X-Filter"}
        ELSE "X-Filter" \notin DOMAIN reqs[k].header

C8_Witness ==
    /\ Succeeded
    /\ entry.Filter = "label:myserver"
    /\ Len(reqs) = MaxPages
    /\ reqs[MaxPages].header = [k \in {"X-Filter"} |-> "label:myserver"]
    /\ DOMAIN reqs[MaxPages].query = {"page", "label", "count"}

\* flattenQueryStruct has returned a map
Flattened == flattened /\ ~output.err.isErr

\* the field holds the zero value of its type: nil for a pointer field
HoldsZero(f) ==
    \/ f.ptr = "nil"
    \/ f.ptr = "no" /\ f.kind = "string" /\ f.val = ""
    \/ f.ptr = "no" /\ f.kind = "bool" /\ f.val = FALSE
    \/ f.ptr = "no" /\ f.kind \notin {"string", "bool"} /\ f.val = 0

\* the text of the field's value, by kind
TextOf(f) ==
    CASE f.kind = "string" -> f.val
      [] f.kind = "bool" -> IF f.val THEN "true" ELSE "false"
      [] OTHER -> FormatInt(f.val)

\* C9: in the map flattenQueryStruct returns, the key of a query-tagged field
\* that holds its type's zero value is absent, and the key of one that holds a
\* non-zero value is present and maps to the value's text by kind.
C9_ZeroOmitted ==
    Flattened =>
        \A i \in 1..Len(input.fields) :
            LET f == input.fields[i]
            IN  f.tagged =>
                    IF HoldsZero(f) THEN f.tag \notin DOMAIN output.params
                    ELSE f.tag \in DOMAIN output.params /\ output.params[f.tag] = TextOf(f)

C9_Witness ==
    /\ Flattened
    /\ Len(input.fields) = 2
    /\ input.fields[1] = [tagged |-> TRUE, tag |-> "label", kind |-> "string", ptr |-> "no", val |-> ""]
    /\ input.fields[2] = [tagged |-> TRUE, tag |-> "count", kind |-> "int", ptr |-> "no", val |-> 25]
    /\ output.params = [k \in {"count"} |-> "25"]

\* the value the field holds, after the dereference, is the zero value of its kind
PointsToZero(f) ==
    \/ f.kind = "string" /\ f.val = ""
    \/ f.kind = "bool" /\ f.val = FALSE
    \/ f.kind \notin {"string", "bool"} /\ f.val = 0

\* C10 as stated: no key of the returned map comes from a field whose value is
\* a zero value ("", 0 or false), pointer fields included.
C10_AsStated ==
    Flattened =>
        \A i \in 1..Len(input.fields) :
            LET f == input.fields[i]
            IN  (f.tagged /\ f.tag \in DOMAIN output.params) => ~PointsToZero(f)

\* C10 amended: a field that is not a pointer never puts a zero value into the
\* returned map; a non-nil pointer field that points to a zero value does: its
\* key maps to "", "0" or "false".
C10_ZeroOnlyThroughPointer ==
    Flattened =>
        \A i \in 1..Len(input.fields) :
            LET f == input.fields[i]
            IN  f.tagged =>
                    /\ (f.ptr = "no" /\ f.tag \in DOMAIN output.params) => ~PointsToZero(f)
                    /\ (f.ptr = "set" /\ PointsToZero(f)) =>
                           /\ f.tag \in DOMAIN output.params
                           /\ output.params[f.tag] \in {"", "0", "false"}

C10_Witness ==
    /\ Flattened
    /\ Len(input.fields) = 2
    /\ input.fields[1] = [tagged |-> TRUE, tag |-> "count", kind |-> "int", ptr |-> "set", val |-> 0]
    /\ input.fields[2] = [tagged |-> TRUE, tag |-> "label", kind |-> "bool", ptr |-> "set", val |-> FALSE]
    /\ output.params = [k \in {"count", "label"} |-> IF k = "count" THEN "0" ELSE "false"]

\* flattenQueryStruct was handed a struct or a non-nil pointer to one
StructInput == input.shape \in {"val", "ptr"} /\ input.kind = "struct"

\* the query-tagged fields that hold a non-zero value
LiveFields == {i \in 1..Len(input.fields) : input.fields[i].tagged /\ ~HoldsZero(input.fields[i])}

Min(S) == CHOOSE x \in S : \A y \in S : x <= y

\* flattenQueryStruct has stringified the non-zero tagged fields by kind, the
\* kinds in `supported` being the ones that have a text: with only such fields
\* the map holds each field's text, and with a field of another kind the call
\* fails with the unsupported-type error naming the first such field's type
StringifiedByKind(supported) ==
    (flattened /\ StructInput) =>
        LET bad == {i \in LiveFields : input.fields[i].kind \notin supported}
        IN  IF bad = {}
            THEN /\ ~output.err.isErr
                 /\ DOMAIN output.params = {input.fields[i].tag : i \in LiveFields}
                 /\ \A i \in LiveFields :
                       output.params[input.fields[i].tag] = TextOf(input.fields[i])
            ELSE /\ output.err = Err("unsupported query param type: "
                                         \o input.fields[Min(bad)].kind)
                 /\ output.params = EmptyMap

\* C11 as stated: a string yields itself, an integer of any width its base-10
\* text, a bool "true" or "false"; a field of any other kind makes the whole
\* flatten fail with the unsupported-type error.
C11_AsStated == StringifiedByKind({"string", "bool", "int", "int16", "int32", "int64"})

\* C11 amended: the integers that have a text are int, int32 and int64 only; a
\* non-zero field of another integer width (int16 here), like one of any other
\* kind (float64), makes the whole flatten fail with the unsupported-type error.
C11_StringifiedByKind == StringifiedByKind({"string", "bool", "int", "int32", "int64"})

C11_Witness ==
    /\ flattened /\ StructInput
    /\ Len(input.fields) = 2
    /\ input.fields[1] = [tagged |-> TRUE, tag |-> "label", kind |-> "int64", ptr |-> "no", val |-> 25]
    /\ input.fields[2] = [tagged |-> TRUE, tag |-> "count", kind |-> "float64", ptr |-> "no", val |-> 25]
    /\ output.err = Err("unsupported query param type: float64")

\* the errors flattenQueryStruct gives for a value that is no struct
NilPointerError == Err("QueryParams is a nil pointer")

NotStructError(kind) == Err("expected struct type for the QueryParams but got: " \o kind)

\* the kind found after at most one dereference; the nil interface has the
\* invalid kind
EncounteredKind == IF input.shape = "nil" THEN "invalid" ELSE input.kind

\* C12: a nil pointer fails with the nil-pointer error; a value that after at
\* most one dereference is no struct fails with the error naming the kind found
\* (e.g. "int"); both return no map.  Only a struct or a non-nil pointer to one
\* is flattened: it never fails with either of these errors.
C12_BadShapesRejected ==
    flattened =>
        /\ input.shape = "nilptr" =>
              output.err = NilPointerError /\ output.params = EmptyMap
        /\ (input.shape # "nilptr" /\ ~StructInput) =>
              output.err = NotStructError(EncounteredKind) /\ output.params = EmptyMap
        /\ StructInput =>
              /\ output.err # NilPointerError
              /\ \A k \in {"struct", "int", "ptr", "invalid"} : output.err # NotStructError(k)
              /\ (LiveFields = {} => ~output.err.isErr)

C12_Witness ==
    /\ flattened
    /\ input = [shape |-> "ptr", kind |-> "int", fields |-> <<>>]
    /\ output.err = Err("expected struct type for the QueryParams but got: int")
    /\ output.params = EmptyMap

\* C14: in a fetch-all the requests are strictly sequential and in increasing
\* page order: at most one request is in flight, a request is issued only when
\* every earlier one has been answered, the first request carries no page
\* parameter and the k-th (k >= 2) carries page=k.
C14_Sequential ==
    EntryFetchAll =>
        /\ inflight \in {0, 1}
        /\ Len(reqs) = Len(resps) + inflight
        /\ Len(reqs) >= 1 => PageParam(reqs[1]) = ""
        /\ \A k \in 2..Len(reqs) : PageParam(reqs[k]) = FormatInt(k)
        /\ \A k \in 1..Len(reqs) : RequestedPage(reqs[k]) = k

C14_Witness ==
    /\ EntryFetchAll
    /\ inflight = 1
    /\ Len(reqs) = MaxPages
    /\ Len(resps) = MaxPages - 1
    /\ PageParam(reqs[MaxPages]) = FormatInt(MaxPages)

\* C15: the page walk starts at page 2 and is bounded by the totalPages of the
\* first response only: when that is <= 1 (0 and below included) nothing more is
\* requested and no recursive call is made, and a successful fetch-all has
\* issued max(1, P1) requests whatever the later responses reported.
C15_LoopBound ==
    (EntryFetchAll /\ Len(resps) >= 1 /\ ~resps[1].err.isErr) =>
        /\ Len(reqs) <= Max(1, resps[1].pages)
        /\ calls <= Max(1, resps[1].pages)
        /\ resps[1].pages <= 1 => (Len(reqs) = 1 /\ calls = 1 /\ maxDepth = 1)
        /\ Succeeded => Len(reqs) = Max(1, resps[1].pages)

C15_Witness ==
    /\ Succeeded /\ EntryFetchAll
    /\ resps[1].pages = MaxPages
    /\ resps[2].pages = 0
    /\ LastResponse.pages = MaxPages - 1
    /\ Len(reqs) = MaxPages

\* the text of the error flattenQueryStruct gives for QueryParams q, "" when
\* q can be flattened: a nil pointer, a value that is no struct, or a tagged
\* non-zero field of a kind without a text
UnflattenableText(q) ==
    IF q.shape = "nil" THEN ""
    ELSE IF q.shape = "nilptr" THEN "QueryParams is a nil pointer"
    ELSE IF q.kind # "struct"
    THEN "expected struct type for the QueryParams but got: " \o q.kind
    ELSE LET bad == {i \in 1..Len(q.fields) :
                        /\ q.fields[i].tagged
                        /\ ~HoldsZero(q.fields[i])
                        /\ q.fields[i].kind \notin {"string", "bool", "int", "int32", "int64"}}
         IN  IF bad = {} THEN ""
             ELSE "unsupported query param type: " \o q.fields[Min(bad)].kind

\* the caller's options carry QueryParams that cannot be flattened
EntryUnflattenable == ~entry.nil /\ UnflattenableText(entry.QueryParams) # ""

\* C16: with QueryParams that cannot be flattened listHelper issues no request
\* and makes no recursive call, leaves the accumulator and the options as they
\* were, and returns the flatten error annotated with "failed to apply list
\* options".
C16_ApplyErrorBeforeRequest ==
    EntryUnflattenable =>
        /\ Len(reqs) = 0 /\ Len(resps) = 0 /\ inflight = 0
        /\ calls = 1
        /\ acc = <<>>
        /\ opts = entry
        /\ Done => ret.err = Err("failed to apply list options: "
                                     \o UnflattenableText(entry.QueryParams))

C16_Witness ==
    /\ Done
    /\ entry.QueryParams = FloatQuery
    /\ entry.Page = 0 /\ entry.hasPO
    /\ ret.err = Err("failed to apply list options: unsupported query param type: float64")
    /\ Len(reqs) = 0

\* C17 as stated: a fetch-all over P pages reaches a recursion depth of P
\* simultaneously active listHelper invocations.
C17_AsStated ==
    (Succeeded /\ EntryFetchAll /\ resps[1].pages >= 1) => maxDepth = resps[1].pages

\* C17 amended: the recursion is never deeper than 2: the outermost invocation
\* calls listHelper once per page 2..P, one call after the other, and a call for
\* a page N > 0 does not recurse.  A fetch-all over P pages makes max(1, P)
\* invocations in all, at depth 2 when P >= 2 and at depth 1 otherwise.
C17_DepthAtMostTwo ==
    /\ Len(stack) <= 2
    /\ maxDepth <= 2
    /\ (Succeeded /\ EntryFetchAll) =>
          /\ calls = Max(1, resps[1].pages)
          /\ maxDepth = IF resps[1].pages >= 2 THEN 2 ELSE 1

C17_Witness ==
    /\ Succeeded /\ EntryFetchAll
    /\ resps[1].pages = MaxPages
    /\ calls = MaxPages
    /\ maxDepth = 2

\* C18: a successful fetch-all with the caller's own options does not put the
\* page back to 0: with a first response reporting P1 >= 2 pages the options
\* return with PageOptions present and page P1, and with page 0 only when
\* P1 <= 1.  A second call with the same options therefore asks for page P1
\* alone: one request carrying page=P1 and no recursive call.
C18_SentinelNotRestored ==
    /\ (Succeeded /\ EntryFetchAll /\ ~entry.nil) =>
          /\ opts.hasPO
          /\ opts.Page = IF resps[1].pages >= 2 THEN resps[1].pages ELSE 0
    /\ second =>
          /\ prev >= 2
          /\ EntrySinglePage
          /\ entry.Page = prev
          /\ calls = 1
          /\ Len(reqs) <= 1
          /\ \A k \in 1..Len(reqs) : PageParam(reqs[k]) = FormatInt(prev)
          /\ Succeeded => (Len(reqs) = 1 /\ opts.Page = prev)

C18_Witness ==
    /\ second /\ prev = MaxPages
    /\ Succeeded
    /\ Len(reqs) = 1
    /\ PageParam(reqs[1]) = FormatInt(MaxPages)
    /\ resps[1].pages = MaxPages
    /\ acc = PageItems(MaxPages)

\* C19: when the first request of a call fails, the options are exactly what
\* the caller passed: page, totals, page size, filter and QueryParams keep their
\* values, nil options stay nil and absent PageOptions stay absent.
C19_FirstFailureLeavesOptions ==
    (FetchFailed /\ Len(resps) = 1) =>
        /\ opts = entry
        /\ opts.nil = entry.nil /\ opts.hasPO = entry.hasPO
        /\ Done /\ ret.err = resps[1].err

C19_Witness ==
    /\ Failed /\ FetchFailed /\ Len(resps) = 1
    /\ ~entry.nil /\ ~entry.hasPO
    /\ entry.Filter # "" /\ entry.PageSize > 0 /\ entry.QueryParams = GoodQuery
    /\ ~opts.hasPO

\* the number of requests a call may issue: one until the first response is
\* in, then max(1, totalPages of the first response)
RequestBound ==
    IF Len(resps) = 0 \/ resps[1].err.isErr THEN 1 ELSE Max(1, resps[1].pages)

\* C20: provided every page fetch returns, every listHelper call returns, with
\* success or with the first error, after at most max(1, P1) requests, whatever
\* totalPages the responses report (changing from page to page, zero or
\* negative).
C20_Terminates ==
    /\ [](Len(reqs) <= RequestBound /\ calls <= RequestBound)
    /\ [](Done => (ret.err.isErr <=> (FetchFailed \/ Len(reqs) = 0)))
    /\ (stack # <<>>) ~> Done

C20_Witness ==
    /\ Succeeded
    /\ Len(reqs) = MaxPages
    /\ resps[1].pages = MaxPages
    /\ resps[2].pages = -1
    /\ LastResponse.pages = 0

=============================================================================
